---- MODULE Spec2Model ----
(***************************************************************************)
(* gobenchmark: the coroutine pool (GoPool) with its job free list, and    *)
(* the command line option that sizes it.                                  *)
(*                                                                         *)
(* Processes: the main goroutine (parseArgs, then startBenchmark creates   *)
(* the pool), Submitters calling GoPool.Do, and the PoolSize worker        *)
(* goroutines running routine().  Jobs are heap objects (indices into      *)
(* `jobs`); result channels are heap objects (indices into `pipes`).       *)
(*                                                                         *)
(* BenchSpec is a benchmark run: the main goroutine is the only caller of  *)
(* Do, every job runs benchmark(), which calls the script hooks, issues    *)
(* the request and updates the Stats, and the main goroutine prints the    *)
(* report after WaitGroup.Wait.  StatsSpec is Stats.UpdateReqElapsed       *)
(* called by concurrent goroutines, statement by statement, and StatusSpec *)
(* is Stats.AddStatusCount called the same way.                            *)
(***************************************************************************)
EXTENDS Integers, Sequences, FiniteSets, TLC

\* ---------------------------------------------------------------- bounds
MaxPoolSize == 2        \* largest pool size explored
MaxSubmits == 2         \* total number of Do calls explored
MaxOpts == 3            \* number of -c options on the command line
MaxElapsed == 2         \* largest elapsed time (ms) of a request
MaxUpdates == 3         \* direct calls of UpdateReqElapsed explored

\* ------------------------------------------------------- program constants
DefaultConnections == 10
PipeCap == 1
DefaultTimes == 1       \* var benchmarkTimes = 1
StatusOK == 200         \* http.StatusOK

Free == 0               \* mutex holder: 0 free, w > 0 worker w, -s submitter s
NoJob == 0              \* nil *Job
NoPipe == 0             \* nil channel

Submitters == {1, 2}    \* goroutines calling Do
Driver == 1             \* the main goroutine, the only caller of Do in a benchmark
Callers == {1, 2}       \* goroutines calling Stats.UpdateReqElapsed
Funs == {"ident", "succ"}  \* the work functions callers submit
\* one -c option: the result of strconv.Atoi on its value
COpts == {[ok |-> FALSE, value |-> 0]} \cup [ok : {TRUE}, value : -1..MaxPoolSize]

VARIABLES
    connections,   \* var connections (pool size option)
    cGiven,        \* the -c options parseArgs has processed, in order
    created,       \* startBenchmark has called NewGoPool
    PoolSize,      \* GoPool.PoolSize
    LastID,        \* GoPool.LastID
    Queue,         \* GoPool.Queue: sequence of *Job
    mutex,         \* GoPool.Cond.L: its holder
    waiters,       \* goroutines parked in GoPool.Cond.Wait
    JobPool,       \* GoPool.JobPool: the set of free *Job
    jobs,          \* heap of Job structs
    pipes,         \* heap of channels: pipes[c] is the buffer of channel c
    wpc,           \* worker: position in routine()
    wjob,          \* worker: local variable job
    wval,          \* worker: value returned by job.fun
    spc,           \* submitter: position in Do
    sjob,          \* submitter: local variable job
    smine,         \* submitter: the channel its Init call made
    scnt,          \* submitter: number of Do calls begun
    subs,          \* history: one record per submission (per Job.Init call)
    enqs,          \* history: submissions in PushBack order
    deqs,          \* history: submissions in Remove order
    benchmarkTimes, \* var benchmarkTimes: the number of requests of the batch
    script,        \* script.go: var enableLua, and the holder of var stateLock
    group,         \* startBenchmark: the counter of the sync.WaitGroup
    main,          \* startBenchmark: position of the main goroutine, Add calls made
    report,        \* what showBenchmarkResult read and printed
    runs,          \* benchmark(): per submission, its request and what was done
    stats,         \* the Stats struct
    upd,           \* UpdateReqElapsed, AddStatusCount called directly: position
                   \* and locals of caller c
    passed         \* history: the values UpdateReqElapsed (in StatusSpec:
                   \* AddStatusCount) was called with

vars == <<connections, cGiven, created, PoolSize, LastID, Queue, mutex, waiters,
          JobPool, jobs, pipes, wpc, wjob, wval, spc, sjob, smine,
          scnt, subs, enqs, deqs, benchmarkTimes, script, group, main, report,
          runs, stats, upd, passed>>

argVars == <<connections, cGiven>>
poolVars == <<PoolSize, LastID, Queue, mutex, waiters, JobPool, jobs, pipes>>
workerVars == <<wpc, wjob, wval>>
submitVars == <<spc, sjob, smine, scnt>>
histVars == <<subs, enqs, deqs>>
runVars == <<benchmarkTimes, group, main, report, runs>>
elapsedVars == <<upd, passed>>
benchVars == <<script, runVars, stats, elapsedVars>>

\* the fields of the Stats struct
success == stats.success
failure == stats.failure
elapsedMutex == stats.elapsedMutex
maxReqElapsed == stats.maxReqElapsed
minReqElapsed == stats.minReqElapsed
totalTimes == stats.totalTimes
totalReqs == stats.totalReqs
totalRecvBytes == stats.totalRecvBytes
statusMutex == stats.statusMutex
statusStats == stats.statusStats

\* script.go: a script is loaded; the holder of the lock of the Lua state
enableLua == script.enableLua
stateLock == script.stateLock

\* startBenchmark: where the main goroutine is ("exit" once the process has
\* died of a panic nobody recovered), and how many group.Add calls it made
dpc == main.pc
added == main.added
crashed == main.pc = "exit"

\* UpdateReqElapsed: where caller c is, and its argument elapsed
epc == [c \in DOMAIN upd |-> upd[c].pc]
ev == [c \in DOMAIN upd |-> upd[c].elapsed]

\* the worker goroutines started so far
Workers == DOMAIN wpc

\* ------------------------------------------------------------ pure helpers
RECURSIVE SumCnt(_, _)
SumCnt(f, S) == IF S = {} THEN 0
                ELSE LET x == CHOOSE y \in S : TRUE IN f[x] + SumCnt(f, S \ {x})

TotalCalls == SumCnt(scnt, Submitters)

\* JobFunc: the work functions submitted
Apply(fun, arg) == IF fun = "ident" THEN arg ELSE arg + 1

\* what the n-th call of Do submits: the identity and the successor in turn,
\* each call with an argument of its own, so that no two submissions have
\* the same result
FunOf(n) == IF n % 2 = 1 THEN "ident" ELSE "succ"
ArgOf(n) == 2 * n

\* mutant of PushBack: the job is put at the head
PushFront(q, e) == <<e>> \o q

\* list.PushBack(v)
PushBack(q, e) == Append(q, e)

\* mutant of Front: the newest element is taken
Back(q) == q[Len(q)]

\* list.Front(), of a non-empty list
Front(q) == Head(q)

\* mutant of RemoveElem: the element stays in the list
RemoveNothing(q, e) == q

\* list.Remove(elem): drop the first occurrence of e
RECURSIVE RemoveElem(_, _)
RemoveElem(q, e) == IF q = <<>> THEN <<>>
                    ELSE IF Head(q) = e THEN Tail(q)
                    ELSE <<Head(q)>> \o RemoveElem(Tail(q), e)

\* &Job{}: what sync.Pool.New returns
ZeroJob == [id |-> 0, fun |-> "nil", args |-> 0, pipe |-> NoPipe]

\* mutant of ParseC: the test value > 0 is missing
ParseCAnyValue(cur, opt) == IF opt.ok THEN opt.value ELSE cur

\* parseArgs, case 'c': the value is taken only if it parses and is positive
ParseC(cur, opt) == IF opt.ok /\ opt.value > 0 THEN opt.value ELSE cur

\* ------------------------------------------------------------------- Init
\* before NewGoPool: no pool, no job, no channel, submitters outside Do
NoPool ==
    /\ created = FALSE
    /\ PoolSize = 0
    /\ LastID = 0
    /\ Queue = <<>>
    /\ mutex = Free
    /\ waiters = {}
    /\ JobPool = {}
    /\ jobs = <<>>
    /\ pipes = <<>>
    /\ wpc = <<>>
    /\ wjob = <<>>
    /\ wval = <<>>
    /\ spc = [s \in Submitters |-> "idle"]
    /\ sjob = [s \in Submitters |-> NoJob]
    /\ smine = [s \in Submitters |-> NoPipe]
    /\ scnt = [s \in Submitters |-> 0]
    /\ subs = <<>>
    /\ enqs = <<>>
    /\ deqs = <<>>

\* what benchmark() has done for one submission, nothing so far: the result
\* of the hook, of req.Do() (err, req.Status, elapsed) and of the check, and
\* how often each of its effects took place
NoRun == [hook |-> "none", issued |-> 0, err |-> FALSE, status |-> 0, elapsed |-> 0,
          check |-> "none", counted |-> 0, fails |-> 0, succs |-> 0, extrema |-> 0,
          dones |-> 0, panics |-> 0]

\* NewStats(): every counter zero, an empty status map
NewStats ==
    [success |-> 0, failure |-> 0, elapsedMutex |-> Free, maxReqElapsed |-> 0,
     minReqElapsed |-> 0, totalTimes |-> 0, totalReqs |-> 0, totalRecvBytes |-> 0,
     statusMutex |-> Free, statusStats |-> <<>>]

\* startBenchmark not begun: an empty WaitGroup, no invocation of benchmark(),
\* nobody inside UpdateReqElapsed
NoBench ==
    /\ group = 0
    /\ main = [pc |-> "loop", added |-> 0]
    /\ report = <<>>
    /\ runs = <<>>
    /\ stats = NewStats
    /\ upd = [c \in Callers |-> [pc |-> "out", elapsed |-> 0]]
    /\ passed = <<>>

\* no script is loaded
NoScript == [enableLua |-> FALSE, stateLock |-> Free]

\* main() at process start: connections has its default
ArgsInit ==
    /\ connections = DefaultConnections
    /\ cGiven = <<>>
    /\ NoPool
    /\ benchmarkTimes = DefaultTimes
    /\ script = NoScript
    /\ NoBench

\* main() when parseArgs has returned, for a command line "-c n"
Init ==
    /\ \E n \in 1..MaxPoolSize :
          /\ connections = n
          /\ cGiven = <<[ok |-> TRUE, value |-> n]>>
    /\ NoPool
    /\ benchmarkTimes = DefaultTimes
    /\ script = NoScript
    /\ NoBench

\* main() when parseArgs and InitScript have returned, for a command line
\* "-c n -n t", with or without "-s script"
BenchInit ==
    /\ \E n \in 1..MaxPoolSize :
          /\ connections = n
          /\ cGiven = <<[ok |-> TRUE, value |-> n]>>
    /\ benchmarkTimes \in 1..MaxSubmits
    /\ script \in [enableLua : BOOLEAN, stateLock : {Free}]
    /\ NoPool
    /\ NoBench

\* a Stats value of its own, UpdateReqElapsed called from outside benchmark()
StatsInit ==
    /\ connections = DefaultConnections
    /\ cGiven = <<>>
    /\ NoPool
    /\ benchmarkTimes = DefaultTimes
    /\ script = NoScript
    /\ NoBench

\* a Stats value of its own, AddStatusCount called from outside benchmark():
\* a caller has its argument status and the count it read for the increment
StatusInit ==
    /\ connections = DefaultConnections
    /\ cGiven = <<>>
    /\ NoPool
    /\ benchmarkTimes = DefaultTimes
    /\ script = NoScript
    /\ group = 0
    /\ main = [pc |-> "loop", added |-> 0]
    /\ report = <<>>
    /\ runs = <<>>
    /\ stats = NewStats
    /\ upd = [c \in Callers |-> [pc |-> "out", status |-> 0, count |-> 0]]
    /\ passed = <<>>

\* ------------------------------------------------------- main goroutine
\* parseArgs: one "-c <value>" option
ParseArgs(opt) ==
    /\ ~created
    /\ Len(cGiven) < MaxOpts
    /\ connections' = ParseC(connections, opt)
    /\ cGiven' = Append(cGiven, opt)
    /\ UNCHANGED <<created, poolVars, workerVars, submitVars, histVars, benchVars>>

\* the fields of the pool NewGoPool(size) builds, with n goroutines started
PoolOf(size, n) ==
    /\ PoolSize' = size
    /\ LastID' = 0
    /\ Queue' = <<>>
    /\ mutex' = Free
    /\ waiters' = {}
    /\ JobPool' = {}
    /\ wpc' = [w \in 1..n |-> "lock"]
    /\ wjob' = [w \in 1..n |-> NoJob]
    /\ wval' = [w \in 1..n |-> 0]

\* mutant of NewGoPool: the loop runs once more (i <= size)
NewGoPoolExtra(size) == PoolOf(size, size + 1)

\* mutant of NewGoPool: the loop runs once less (i < size - 1)
NewGoPoolFewer(size) == PoolOf(size, size - 1)

\* NewGoPool(size): the worker goroutines are started while the lock is held
\* and all begin at the top of routine() once it is released
NewGoPool(size) == PoolOf(size, size)

\* startBenchmark: pool := NewGoPool(connections)
StartBenchmark ==
    /\ ~created
    /\ created' = TRUE
    /\ NewGoPool(connections)
    /\ UNCHANGED <<argVars, benchVars, jobs, pipes, submitVars, histVars>>

\* mutant of JobInit: the channel is made once per Job: a recycled job keeps
\* the channel it has
JobInitKeepPipe(heap, j, id, fun, args, pipe) ==
    [heap EXCEPT ![j] = [id |-> id, fun |-> fun, args |-> args,
                         pipe |-> IF heap[j].pipe # NoPipe THEN heap[j].pipe ELSE pipe]]

\* ------------------------------------------------------------- GoPool.Do
\* Job.Init: the fields of job j are overwritten
JobInit(heap, j, id, fun, args, pipe) ==
    [heap EXCEPT ![j] = [id |-> id, fun |-> fun, args |-> args, pipe |-> pipe]]

\* mutant of AddInt64: the increment is not atomic and the add of a caller
\* that read the same value as another is lost
AddInt64Racy(v, delta) == IF v > 0 THEN v ELSE v + delta

\* atomic.AddInt64(&v, delta): the new value
AddInt64(v, delta) == v + delta

\* pool.JobPool.Get(): a free job is taken out of the pool, or the pool's New
\* allocates a zero Job (Get may ignore what the pool holds)
PoolGet(j) ==
    \/ /\ j \in JobPool
       /\ JobPool' = JobPool \ {j}
    \/ /\ j = Len(jobs) + 1
       /\ JobPool' = JobPool

\* the heap once Get has returned job j
Got(j) == IF j = Len(jobs) + 1 THEN Append(jobs, ZeroJob) ELSE jobs

\* job := pool.JobPool.Get().(*Job)
\* job.Init(atomic.AddInt64(&pool.LastID, 1), fun, args), which makes the
\* job's channel
DoInit(s, f, a) ==
    /\ created
    /\ spc[s] = "idle"
    /\ TotalCalls < MaxSubmits
    /\ \E j \in JobPool \cup {Len(jobs) + 1} :
          /\ PoolGet(j)
          /\ sjob' = [sjob EXCEPT ![s] = j]
          /\ jobs' = JobInit(Got(j), j, AddInt64(LastID, 1), f, a, Len(pipes) + 1)
          /\ subs' = Append(subs, [by |-> s, k |-> scnt[s] + 1, fun |-> f, arg |-> a,
                                   id |-> AddInt64(LastID, 1), job |-> j,
                                   calls |-> 0, rets |-> 0, sends |-> 0,
                                   ret |-> NoPipe])
    /\ LastID' = AddInt64(LastID, 1)
    /\ pipes' = Append(pipes, <<>>)
    /\ smine' = [smine EXCEPT ![s] = Len(pipes) + 1]
    /\ scnt' = [scnt EXCEPT ![s] = @ + 1]
    /\ spc' = [spc EXCEPT ![s] = "lock"]
    /\ UNCHANGED <<argVars, benchVars, created, PoolSize, Queue, mutex, waiters, workerVars,
                   enqs, deqs>>

\* mutant of DoLock: the submitter goes on without waiting for the mutex
DoLockNoWait(s) ==
    /\ spc[s] = "lock"
    /\ mutex' = -s
    /\ spc' = [spc EXCEPT ![s] = "push"]
    /\ UNCHANGED <<argVars, benchVars, created, PoolSize, LastID, Queue, waiters, JobPool, jobs,
                   pipes, workerVars, sjob, smine, scnt, histVars>>

\* pool.Cond.L.Lock()
DoLock(s) ==
    /\ spc[s] = "lock"
    /\ mutex = Free
    /\ mutex' = -s
    /\ spc' = [spc EXCEPT ![s] = "push"]
    /\ UNCHANGED <<argVars, benchVars, created, PoolSize, LastID, Queue, waiters, JobPool, jobs,
                   pipes, workerVars, sjob, smine, scnt, histVars>>

\* mutant of Signal: nobody is woken
SignalNobody == UNCHANGED <<waiters, wpc>>

\* pool.Cond.Signal(): one parked goroutine, if any, leaves the wait
Signal ==
    \/ /\ waiters = {}
       /\ UNCHANGED <<waiters, wpc>>
    \/ \E w \in waiters :
          /\ waiters' = waiters \ {w}
          /\ wpc' = [wpc EXCEPT ![w] = "wake"]

\* pool.Queue.PushBack(job); pool.Cond.Signal(); pool.Cond.L.Unlock()
DoPush(s) ==
    /\ spc[s] = "push"
    /\ mutex = -s
    /\ Queue' = PushBack(Queue, sjob[s])
    /\ Signal
    /\ mutex' = Free
    /\ enqs' = Append(enqs, smine[s])
    /\ spc' = [spc EXCEPT ![s] = "ret"]
    /\ UNCHANGED <<argVars, benchVars, created, PoolSize, LastID, JobPool, jobs, pipes,
                   wjob, wval, sjob, smine, scnt, subs, deqs>>

\* return job.pipe: a read of the job's field after the lock was released; it
\* is not ordered with a later Init of the same job by another submitter, so
\* it yields the pipe this call made or the one the job holds now
ReadPipe(s) == {smine[s], jobs[sjob[s]].pipe}

DoReturn(s) ==
    /\ spc[s] = "ret"
    /\ \E c \in ReadPipe(s) :
          subs' = [subs EXCEPT ![smine[s]].ret = c]
    /\ spc' = [spc EXCEPT ![s] = "idle"]
    /\ sjob' = [sjob EXCEPT ![s] = NoJob]
    /\ smine' = [smine EXCEPT ![s] = NoPipe]
    /\ UNCHANGED <<argVars, benchVars, created, poolVars, workerVars, scnt, enqs, deqs>>

\* mutant of WLock: the wait is wrapped in an `if`, not in a loop: a worker
\* that leaves Cond.Wait removes the front of the queue, nil or not, without
\* looking at it again
WLockNoRecheck(w) ==
    /\ wpc[w] \in {"lock", "wake"}
    /\ mutex = Free
    /\ IF wpc[w] = "lock"
       THEN /\ mutex' = w
            /\ wpc' = [wpc EXCEPT ![w] = "check"]
            /\ UNCHANGED <<Queue, wjob, deqs>>
       ELSE /\ mutex' = Free
            /\ wpc' = [wpc EXCEPT ![w] = "call"]
            /\ wjob' = [wjob EXCEPT ![w] = IF Queue = <<>> THEN NoJob ELSE Front(Queue)]
            /\ Queue' = IF Queue = <<>> THEN Queue ELSE RemoveElem(Queue, Front(Queue))
            /\ deqs' = Append(deqs, IF Queue = <<>> THEN NoPipe ELSE jobs[Front(Queue)].pipe)
    /\ UNCHANGED <<argVars, benchVars, created, PoolSize, LastID, waiters, JobPool, jobs,
                   pipes, wval, submitVars, subs, enqs>>

\* --------------------------------------------------------------- routine
\* pool.Cond.L.Lock(), at the top of the loop or on the way out of Cond.Wait
WLock(w) ==
    /\ wpc[w] \in {"lock", "wake"}
    /\ mutex = Free
    /\ mutex' = w
    /\ wpc' = [wpc EXCEPT ![w] = "check"]
    /\ UNCHANGED <<argVars, benchVars, created, PoolSize, LastID, Queue, waiters, JobPool, jobs,
                   pipes, wjob, wval, submitVars, histVars>>

\* mutant of WCheck: the lock is released between the test of the queue and
\* the wait: the worker parks later, without looking at the queue again
WCheckThenPark(w) ==
    /\ wpc[w] \in {"check", "topark"}
    /\ IF wpc[w] = "topark"
       THEN /\ waiters' = waiters \cup {w}
            /\ wpc' = [wpc EXCEPT ![w] = "waiting"]
            /\ UNCHANGED <<Queue, wjob, deqs, mutex>>
       ELSE /\ mutex = w
            /\ mutex' = Free
            /\ IF Queue = <<>>
               THEN /\ wpc' = [wpc EXCEPT ![w] = "topark"]
                    /\ UNCHANGED <<Queue, wjob, deqs, waiters>>
               ELSE /\ wjob' = [wjob EXCEPT ![w] = Front(Queue)]
                    /\ Queue' = RemoveElem(Queue, Front(Queue))
                    /\ deqs' = Append(deqs, jobs[Front(Queue)].pipe)
                    /\ wpc' = [wpc EXCEPT ![w] = "call"]
                    /\ UNCHANGED waiters
    /\ UNCHANGED <<argVars, benchVars, created, PoolSize, LastID, JobPool, jobs, pipes,
                   wval, submitVars, subs, enqs>>

\* mutant of WCheck: the lock is not released before the job is run
WCheckHold(w) ==
    /\ wpc[w] = "check"
    /\ mutex = w
    /\ IF Queue = <<>>
       THEN /\ waiters' = waiters \cup {w}
            /\ wpc' = [wpc EXCEPT ![w] = "waiting"]
            /\ mutex' = Free
            /\ UNCHANGED <<Queue, wjob, deqs>>
       ELSE /\ wjob' = [wjob EXCEPT ![w] = Front(Queue)]
            /\ Queue' = RemoveElem(Queue, Front(Queue))
            /\ deqs' = Append(deqs, jobs[Front(Queue)].pipe)
            /\ wpc' = [wpc EXCEPT ![w] = "call"]
            /\ UNCHANGED <<waiters, mutex>>
    /\ UNCHANGED <<argVars, benchVars, created, PoolSize, LastID, JobPool, jobs, pipes,
                   wval, submitVars, subs, enqs>>

\* checkAgain: elem := pool.Queue.Front(); if elem == nil { pool.Cond.Wait() }
\* else: job := elem.Value.(*Job); pool.Queue.Remove(elem); pool.Cond.L.Unlock()
\* (Cond.Wait parks the goroutine and releases the lock)
WCheck(w) ==
    /\ wpc[w] = "check"
    /\ mutex = w
    /\ IF Queue = <<>>
       THEN /\ waiters' = waiters \cup {w}
            /\ wpc' = [wpc EXCEPT ![w] = "waiting"]
            /\ UNCHANGED <<Queue, wjob, deqs>>
       ELSE /\ wjob' = [wjob EXCEPT ![w] = Front(Queue)]
            /\ Queue' = RemoveElem(Queue, Front(Queue))
            /\ deqs' = Append(deqs, jobs[Front(Queue)].pipe)
            /\ wpc' = [wpc EXCEPT ![w] = "call"]
            /\ UNCHANGED waiters
    /\ mutex' = Free
    /\ UNCHANGED <<argVars, benchVars, created, PoolSize, LastID, JobPool, jobs, pipes,
                   wval, submitVars, subs, enqs>>

\* job.fun(job.args...) is entered
WCall(w) ==
    /\ wpc[w] = "call"
    /\ wval' = [wval EXCEPT ![w] = Apply(jobs[wjob[w]].fun, jobs[wjob[w]].args)]
    /\ subs' = [subs EXCEPT ![jobs[wjob[w]].pipe].calls = @ + 1]
    /\ wpc' = [wpc EXCEPT ![w] = "infun"]
    /\ UNCHANGED <<argVars, benchVars, created, poolVars, wjob, submitVars, enqs, deqs>>

\* job.pipe <- (the value job.fun returns): the function returns and its value
\* is sent, which waits while the channel's buffer is full
WSend(w) ==
    /\ wpc[w] = "infun"
    /\ LET c == jobs[wjob[w]].pipe IN
          /\ Len(pipes[c]) < PipeCap
          /\ pipes' = [pipes EXCEPT ![c] = Append(@, wval[w])]
          /\ subs' = [subs EXCEPT ![c].rets = @ + 1, ![c].sends = @ + 1]
    /\ wval' = [wval EXCEPT ![w] = 0]
    /\ wpc' = [wpc EXCEPT ![w] = "put"]
    /\ UNCHANGED <<argVars, benchVars, created, PoolSize, LastID, Queue, mutex, waiters, JobPool,
                   jobs, wjob, submitVars, enqs, deqs>>

\* pool.JobPool.Put(job), then back to the top of the loop
WPut(w) ==
    /\ wpc[w] = "put"
    /\ JobPool' = JobPool \cup {wjob[w]}
    /\ wjob' = [wjob EXCEPT ![w] = NoJob]
    /\ wpc' = [wpc EXCEPT ![w] = "lock"]
    /\ UNCHANGED <<argVars, benchVars, created, PoolSize, LastID, Queue, mutex, waiters, jobs,
                   pipes, wval, submitVars, histVars>>

\* ------------------------------------------------------------------ Stats
\* UpdateReqElapsed: the new maximum
NewMax(cur, v) == IF cur < v THEN v ELSE cur

\* UpdateReqElapsed: the new minimum (0 is read as "not set")
NewMin(cur, v) == IF cur = 0 \/ v < cur THEN v ELSE cur

\* atomic.AddInt64(&s.success, 1)
AddSuccess(n) == n + 1

\* mutant of AddFailure: the counter is left as it is
AddFailureNot(n) == n

\* atomic.AddInt64(&s.failure, 1)
AddFailure(n) == n + 1

\* mutant of AddTotalReqs: the counter is left as it is
AddTotalReqsNot(n) == n

\* atomic.AddInt64(&s.totalReqs, 1)
AddTotalReqs(n) == n + 1

\* atomic.AddInt64(&s.totalTimes, ts)
AddTotalTime(n, ts) == n + ts

\* mutant of AddTotalRecvBytes: the sum is stored over, not added to
AddTotalRecvBytesStore(n, bytes) == bytes

\* atomic.AddInt64(&s.totalRecvBytes, bytes)
AddTotalRecvBytes(n, bytes) == n + bytes

\* mutant of AddStatusCount: the count of the status is set to one
AddStatusCountOnce(m, status) ==
    [c \in DOMAIN m \cup {status} |-> IF c = status THEN 1 ELSE m[c]]

\* AddStatusCount: the map with the count of one status raised by one
AddStatusCount(m, status) ==
    [c \in DOMAIN m \cup {status} |->
        IF c = status THEN (IF c \in DOMAIN m THEN m[c] ELSE 0) + 1 ELSE m[c]]

\* ------------------------------------------------- Stats.UpdateReqElapsed
\* a goroutine calls s.UpdateReqElapsed(v)
UCall(c, v) ==
    /\ epc[c] = "out"
    /\ Len(passed) < MaxUpdates
    /\ upd' = [upd EXCEPT ![c] = [pc |-> "lock", elapsed |-> v]]
    /\ passed' = Append(passed, v)
    /\ UNCHANGED <<argVars, created, poolVars, workerVars, submitVars, histVars,
                   script, runVars, stats>>

\* mutant of ULock: the mutex is taken without waiting for it
ULockNoWait(c) ==
    /\ epc[c] = "lock"
    /\ stats' = [stats EXCEPT !.elapsedMutex = c]
    /\ upd' = [upd EXCEPT ![c].pc = "cmpmax"]
    /\ UNCHANGED <<argVars, created, poolVars, workerVars, submitVars, histVars,
                   script, runVars, passed>>

\* s.elapsedMutex.Lock()
ULock(c) ==
    /\ epc[c] = "lock"
    /\ elapsedMutex = Free
    /\ stats' = [stats EXCEPT !.elapsedMutex = c]
    /\ upd' = [upd EXCEPT ![c].pc = "cmpmax"]
    /\ UNCHANGED <<argVars, created, poolVars, workerVars, submitVars, histVars,
                   script, runVars, passed>>

\* if s.maxReqElapsed < elapsed
UCmpMax(c) ==
    /\ epc[c] = "cmpmax"
    /\ upd' = [upd EXCEPT ![c].pc = IF maxReqElapsed < ev[c] THEN "setmax" ELSE "cmpmin"]
    /\ UNCHANGED <<argVars, created, poolVars, workerVars, submitVars, histVars,
                   script, runVars, stats, passed>>

\* s.maxReqElapsed = elapsed
USetMax(c) ==
    /\ epc[c] = "setmax"
    /\ stats' = [stats EXCEPT !.maxReqElapsed = ev[c]]
    /\ upd' = [upd EXCEPT ![c].pc = "cmpmin"]
    /\ UNCHANGED <<argVars, created, poolVars, workerVars, submitVars, histVars,
                   script, runVars, passed>>

\* if s.minReqElapsed == 0 || elapsed < s.minReqElapsed
UCmpMin(c) ==
    /\ epc[c] = "cmpmin"
    /\ upd' = [upd EXCEPT ![c].pc = IF minReqElapsed = 0 \/ ev[c] < minReqElapsed
                                    THEN "setmin" ELSE "unlock"]
    /\ UNCHANGED <<argVars, created, poolVars, workerVars, submitVars, histVars,
                   script, runVars, stats, passed>>

\* s.minReqElapsed = elapsed
USetMin(c) ==
    /\ epc[c] = "setmin"
    /\ stats' = [stats EXCEPT !.minReqElapsed = ev[c]]
    /\ upd' = [upd EXCEPT ![c].pc = "unlock"]
    /\ UNCHANGED <<argVars, created, poolVars, workerVars, submitVars, histVars,
                   script, runVars, passed>>

\* s.elapsedMutex.Unlock(), and the call returns
UUnlock(c) ==
    /\ epc[c] = "unlock"
    /\ stats' = [stats EXCEPT !.elapsedMutex = Free]
    /\ upd' = [upd EXCEPT ![c] = [pc |-> "out", elapsed |-> 0]]
    /\ UNCHANGED <<argVars, created, poolVars, workerVars, submitVars, histVars,
                   script, runVars, passed>>

\* func (s *Stats) UpdateReqElapsed(elapsed int64)
UpdateReqElapsed(c) ==
    \/ \E v \in 0..MaxElapsed : UCall(c, v)
    \/ ULock(c)
    \/ UCmpMax(c)
    \/ USetMax(c)
    \/ UCmpMin(c)
    \/ USetMin(c)
    \/ UUnlock(c)

\* --------------------------------------------------- Stats.AddStatusCount
\* the status codes AddStatusCount is called with
Codes == {StatusOK, 404}

\* a goroutine calls s.AddStatusCount(status)
SCall(c, status) ==
    /\ epc[c] = "out"
    /\ Len(passed) < MaxUpdates
    /\ upd' = [upd EXCEPT ![c] = [pc |-> "slock", status |-> status, count |-> 0]]
    /\ passed' = Append(passed, status)
    /\ UNCHANGED <<argVars, created, poolVars, workerVars, submitVars, histVars,
                   script, runVars, stats>>

\* mutant of SLock: the mutex is taken without waiting for it
SLockNoWait(c) ==
    /\ epc[c] = "slock"
    /\ stats' = [stats EXCEPT !.statusMutex = c]
    /\ upd' = [upd EXCEPT ![c].pc = "exists"]
    /\ UNCHANGED <<argVars, created, poolVars, workerVars, submitVars, histVars,
                   script, runVars, passed>>

\* s.statusMutex.Lock()
SLock(c) ==
    /\ epc[c] = "slock"
    /\ statusMutex = Free
    /\ stats' = [stats EXCEPT !.statusMutex = c]
    /\ upd' = [upd EXCEPT ![c].pc = "exists"]
    /\ UNCHANGED <<argVars, created, poolVars, workerVars, submitVars, histVars,
                   script, runVars, passed>>

\* if _, exists := s.statusStats[status]; !exists { s.statusStats[status] = 0 }
SExists(c) ==
    /\ epc[c] = "exists"
    /\ stats' = IF upd[c].status \in DOMAIN statusStats
                THEN stats
                ELSE [stats EXCEPT !.statusStats =
                        [k \in DOMAIN @ \cup {upd[c].status} |->
                            IF k = upd[c].status THEN 0 ELSE @[k]]]
    /\ upd' = [upd EXCEPT ![c].pc = "load"]
    /\ UNCHANGED <<argVars, created, poolVars, workerVars, submitVars, histVars,
                   script, runVars, passed>>

\* s.statusStats[status]++, the read of the count
SLoad(c) ==
    /\ epc[c] = "load"
    /\ upd' = [upd EXCEPT ![c].pc = "store", ![c].count = statusStats[upd[c].status]]
    /\ UNCHANGED <<argVars, created, poolVars, workerVars, submitVars, histVars,
                   script, runVars, stats, passed>>

\* s.statusStats[status]++, the write of the count raised by one
SStore(c) ==
    /\ epc[c] = "store"
    /\ stats' = [stats EXCEPT !.statusStats[upd[c].status] = upd[c].count + 1]
    /\ upd' = [upd EXCEPT ![c].pc = "sunlock"]
    /\ UNCHANGED <<argVars, created, poolVars, workerVars, submitVars, histVars,
                   script, runVars, passed>>

\* s.statusMutex.Unlock(), and the call returns
SUnlock(c) ==
    /\ epc[c] = "sunlock"
    /\ stats' = [stats EXCEPT !.statusMutex = Free]
    /\ upd' = [upd EXCEPT ![c] = [pc |-> "out", status |-> 0, count |-> 0]]
    /\ UNCHANGED <<argVars, created, poolVars, workerVars, submitVars, histVars,
                   script, runVars, passed>>

\* func (s *Stats) AddStatusCount(status int), statement by statement
AddStatusCountBy(c) ==
    \/ \E status \in Codes : SCall(c, status)
    \/ SLock(c)
    \/ SExists(c)
    \/ SLoad(c)
    \/ SStore(c)
    \/ SUnlock(c)

\* ------------------------------------------------- startBenchmark, the loop
\* what req.Do() can leave behind: no response (Status stays 0, an error), a
\* response with its status code, read completely or not (ioutil.ReadAll
\* fails), after any number of milliseconds
Outcomes == {o \in [err : BOOLEAN, status : {0, StatusOK, 404}, elapsed : 0..MaxElapsed] :
                o.status = 0 => o.err}

\* what a script hook can come back with: true, false, a Lua error, or a value
\* that is not a boolean
HookResults == {"true", "false", "error", "other"}

\* mutant of RunScriptResult: only a Lua error gives false
RunScriptResultUnlessError(r) == r # "error"

\* ReqRunScript, CheckRunScript: result := false;
\* if err == nil { if ok := ret.(lua.LBool); ok { result = true } }
RunScriptResult(r) == r = "true"

\* mutant of IsFailure: only an error of the executor makes a failure
IsFailureOnError(err, status) == err

\* if err != nil || req.Status != http.StatusOK
IsFailure(err, status) == err \/ status # StatusOK

\* len(body) of the response to the request of submission x
LenOf(x) == x + 2

\* an unrecovered panic ends the process: every goroutine is gone
ProcessDies ==
    /\ main' = [main EXCEPT !.pc = "exit"]
    /\ spc' = [s \in Submitters |-> "exit"]
    /\ wpc' = <<>>
    /\ wjob' = <<>>
    /\ wval' = <<>>

\* WaitGroup.Add(delta) on the counter
WaitGroupAdd(n, delta) == n + delta

\* mutant of WaitGroupDone: the counter is lowered by two
WaitGroupDoneTwice(n) == n - 2

\* WaitGroup.Done() on the counter
WaitGroupDone(n) == n - 1

\* group.Add(1), for the next element of simples
GroupAdd ==
    /\ created
    /\ dpc = "loop"
    /\ spc[Driver] = "idle"
    /\ added = scnt[Driver]
    /\ added < benchmarkTimes
    /\ group' = WaitGroupAdd(group, 1)
    /\ main' = [main EXCEPT !.added = @ + 1]
    /\ runs' = Append(runs, NoRun)
    /\ UNCHANGED <<argVars, created, poolVars, workerVars, submitVars, histVars,
                   script, benchmarkTimes, report, stats, elapsedVars>>

\* pool.Do(benchmark, NewBenchmarkArgs(simple, group, stats))
DriverDo ==
    \/ /\ dpc = "loop"
       /\ added > scnt[Driver]
       /\ DoInit(Driver, "benchmark", added)
    \/ DoLock(Driver)
    \/ DoPush(Driver)
    \/ DoReturn(Driver)

\* mutant of GroupWait: Wait returns whatever the counter is
GroupWaitNow ==
    /\ dpc = "loop"
    /\ spc[Driver] = "idle"
    /\ scnt[Driver] = benchmarkTimes
    /\ main' = [main EXCEPT !.pc = "show"]
    /\ UNCHANGED <<argVars, created, poolVars, workerVars, submitVars, histVars,
                   script, benchmarkTimes, group, report, runs, stats, elapsedVars>>

\* group.Wait() returns
GroupWait ==
    /\ dpc = "loop"
    /\ spc[Driver] = "idle"
    /\ scnt[Driver] = benchmarkTimes
    /\ group = 0
    /\ main' = [main EXCEPT !.pc = "show"]
    /\ UNCHANGED <<argVars, created, poolVars, workerVars, submitVars, histVars,
                   script, benchmarkTimes, group, report, runs, stats, elapsedVars>>

\* showBenchmarkResult: totalReqs := stats.totalReqs; if totalReqs == 0
\* { totalReqs = 1 }, and the same for totalSeconds
Clamp(n) == IF n = 0 THEN 1 ELSE n

\* showBenchmarkResult: the divisors of its integer divisions, line by line:
\* "Success Rate" and "Average Request Time" divide by the local totalReqs,
\* "Requests/sec" by stats.totalReqs as it is
Divisors(st) == <<Clamp(st.totalReqs), Clamp(st.totalReqs), st.totalReqs>>

\* showBenchmarkResult(stats): the counters are read and printed, until a
\* division by zero panics
ShowBenchmarkResult ==
    /\ dpc = "show"
    /\ report' = <<[stats |-> stats, group |-> group,
                    complete |-> \A i \in DOMAIN Divisors(stats) : Divisors(stats)[i] # 0]>>
    /\ IF \E i \in DOMAIN Divisors(stats) : Divisors(stats)[i] = 0
       THEN ProcessDies
       ELSE /\ main' = [main EXCEPT !.pc = "end"]
            /\ UNCHANGED <<spc, workerVars>>
    /\ UNCHANGED <<argVars, created, poolVars, sjob, smine, scnt, histVars,
                   script, benchmarkTimes, group, runs, stats, elapsedVars>>

\* ------------------------------------------------------------ benchmark()
\* the submission the job of worker w was initialised for
Sub(w) == jobs[wjob[w]].pipe

\* the request of worker w: err, req.Status and elapsed once req.Do() has run
Req(w) == runs[Sub(w)]

\* the positions of a worker inside benchmark()
BenchPositions == {"hook", "inhook", "do", "count", "status", "class", "elapsed",
                   "tocheck", "incheck", "done", "panic", "dying"}

\* job.fun(job.args...) is entered with fun = benchmark: params[0] is the
\* *BenchmarkArgs startBenchmark built (WaitGroup, Simple and Stats all set),
\* defer args.WaitGroup.Done() is registered and the request is built
BEnter(w) ==
    /\ wpc[w] = "call"
    /\ jobs[wjob[w]].fun = "benchmark"
    /\ wpc' = [wpc EXCEPT ![w] = "hook"]
    /\ subs' = [subs EXCEPT ![Sub(w)].calls = @ + 1]
    /\ UNCHANGED <<argVars, created, poolVars, wjob, wval, submitVars, enqs, deqs,
                   benchVars>>

\* mutant of AfterHook: what the hook said is ignored
AfterHookAnyway(ok, empty) == IF empty THEN "done" ELSE "do"

\* if !ReqRunScript(req) { return nil }
\* if len(req.opts.URL) == 0 { return nil }
\* where benchmark() goes on after the hook: to its return, or to req.Do()
AfterHook(ok, empty) == IF ~ok \/ empty THEN "done" ELSE "do"

\* mutant of BHook: the request hook is called without waiting for stateLock
BHookNoLock(w) ==
    /\ wpc[w] = "hook"
    /\ IF enableLua
       THEN /\ script' = [script EXCEPT !.stateLock = w]
            /\ wpc' = [wpc EXCEPT ![w] = "inhook"]
            /\ runs' = runs
       ELSE /\ \E empty \in BOOLEAN : wpc' = [wpc EXCEPT ![w] = AfterHook(TRUE, empty)]
            /\ runs' = [runs EXCEPT ![Sub(w)].hook = "true"]
            /\ script' = script
    /\ UNCHANGED <<argVars, created, poolVars, wjob, wval, submitVars, histVars,
                   benchmarkTimes, group, main, report, stats, elapsedVars>>

\* ReqRunScript(req): without a script it is true at once; with one,
\* stateLock.Lock() comes first
BHook(w) ==
    /\ wpc[w] = "hook"
    /\ IF enableLua
       THEN /\ stateLock = Free
            /\ script' = [script EXCEPT !.stateLock = w]
            /\ wpc' = [wpc EXCEPT ![w] = "inhook"]
            /\ runs' = runs
       ELSE /\ \E empty \in BOOLEAN : wpc' = [wpc EXCEPT ![w] = AfterHook(TRUE, empty)]
            /\ runs' = [runs EXCEPT ![Sub(w)].hook = "true"]
            /\ script' = script
    /\ UNCHANGED <<argVars, created, poolVars, wjob, wval, submitVars, histVars,
                   benchmarkTimes, group, main, report, stats, elapsedVars>>

\* ReqRunScript(req), the Lua function request() has returned: an error or
\* false give false, the type assertion ret.(lua.LBool) panics on any other
\* value (stateLock still held); stateLock.Unlock(); then
\* if !ReqRunScript(req) { return nil } and the test of the URL
BHookRet(w) ==
    /\ wpc[w] = "inhook"
    /\ stateLock = w
    /\ \E r \in HookResults :
          /\ runs' = [runs EXCEPT ![Sub(w)].hook = r]
          /\ IF r = "other"
             THEN /\ wpc' = [wpc EXCEPT ![w] = "panic"]
                  /\ script' = script
             ELSE /\ script' = [script EXCEPT !.stateLock = Free]
                  /\ \E empty \in (IF RunScriptResult(r) THEN BOOLEAN ELSE {FALSE}) :
                        wpc' = [wpc EXCEPT ![w] = AfterHook(RunScriptResult(r), empty)]
    /\ UNCHANGED <<argVars, created, poolVars, wjob, wval, submitVars, histVars,
                   benchmarkTimes, group, main, report, stats, elapsedVars>>

\* body, err := req.Do(); elapsed := req.GetLastElapsed()
BDo(w) ==
    /\ wpc[w] = "do"
    /\ \E o \in Outcomes :
          runs' = [runs EXCEPT ![Sub(w)].issued = @ + 1,
                               ![Sub(w)].err = o.err,
                               ![Sub(w)].status = o.status,
                               ![Sub(w)].elapsed = o.elapsed]
    /\ wpc' = [wpc EXCEPT ![w] = "count"]
    /\ UNCHANGED <<argVars, created, poolVars, wjob, wval, submitVars, histVars,
                   script, benchmarkTimes, group, main, report, stats, elapsedVars>>

\* mutant of BCount: the quotient 1000000000000 / elapsed is not computed, so
\* an elapsed time of 0 does not panic
BCountNoQuotient(w) ==
    /\ wpc[w] = "count"
    /\ stats' = [stats EXCEPT !.totalReqs = AddTotalReqs(@),
                              !.totalTimes = AddTotalTime(@, Req(w).elapsed)]
    /\ runs' = [runs EXCEPT ![Sub(w)].counted = @ + 1]
    /\ wpc' = [wpc EXCEPT ![w] = "status"]
    /\ UNCHANGED <<argVars, created, poolVars, wjob, wval, submitVars, histVars,
                   script, benchmarkTimes, group, main, report, elapsedVars>>

\* stats.AddTotalPreReqs(1000000000000 / elapsed): the division panics when
\* elapsed is 0 (the sum of the quotients is not modelled);
\* stats.AddTotalReqs(); stats.AddTotalTime(elapsed)
BCount(w) ==
    /\ wpc[w] = "count"
    /\ IF Req(w).elapsed = 0
       THEN /\ wpc' = [wpc EXCEPT ![w] = "panic"]
            /\ UNCHANGED <<stats, runs>>
       ELSE /\ stats' = [stats EXCEPT !.totalReqs = AddTotalReqs(@),
                                      !.totalTimes = AddTotalTime(@, Req(w).elapsed)]
            /\ runs' = [runs EXCEPT ![Sub(w)].counted = @ + 1]
            /\ wpc' = [wpc EXCEPT ![w] = "status"]
    /\ UNCHANGED <<argVars, created, poolVars, wjob, wval, submitVars, histVars,
                   script, benchmarkTimes, group, main, report, elapsedVars>>

\* mutant of BStatus: args.WaitGroup.Done() is not deferred but called here,
\* before the request is classified
BStatusThenDone(w) ==
    /\ wpc[w] = "status"
    /\ stats' = IF Req(w).status # 0
                THEN [stats EXCEPT !.statusStats = AddStatusCount(@, Req(w).status)]
                ELSE stats
    /\ group' = WaitGroupDone(group)
    /\ runs' = [runs EXCEPT ![Sub(w)].dones = @ + 1]
    /\ wpc' = [wpc EXCEPT ![w] = "class"]
    /\ UNCHANGED <<argVars, created, poolVars, wjob, wval, submitVars, histVars,
                   script, benchmarkTimes, main, report, elapsedVars>>

\* if req.Status != 0 { stats.AddStatusCount(req.Status) }
BStatus(w) ==
    /\ wpc[w] = "status"
    /\ stats' = IF Req(w).status # 0
                THEN [stats EXCEPT !.statusStats = AddStatusCount(@, Req(w).status)]
                ELSE stats
    /\ wpc' = [wpc EXCEPT ![w] = "class"]
    /\ UNCHANGED <<argVars, created, poolVars, wjob, wval, submitVars, histVars,
                   script, runVars, elapsedVars>>

\* mutant of BClass: stats.UpdateReqElapsed(elapsed) is called before the
\* test of err and req.Status, next to AddTotalTime
BClassUpdateFirst(w) ==
    /\ wpc[w] = "class"
    /\ IF IsFailure(Req(w).err, Req(w).status)
       THEN /\ stats' = [stats EXCEPT !.failure = AddFailure(@),
                                      !.maxReqElapsed = NewMax(@, Req(w).elapsed),
                                      !.minReqElapsed = NewMin(@, Req(w).elapsed)]
            /\ runs' = [runs EXCEPT ![Sub(w)].fails = @ + 1]
            /\ wpc' = [wpc EXCEPT ![w] = "done"]
       ELSE /\ stats' = [stats EXCEPT
                            !.totalRecvBytes = AddTotalRecvBytes(@, LenOf(Sub(w)))]
            /\ wpc' = [wpc EXCEPT ![w] = "elapsed"]
            /\ UNCHANGED runs
    /\ UNCHANGED <<argVars, created, poolVars, wjob, wval, submitVars, histVars,
                   script, benchmarkTimes, group, main, report, elapsedVars>>

\* if err != nil || req.Status != http.StatusOK { stats.AddFailure(); return nil }
\* stats.AddTotalRecvBytes(int64(len(body)))
BClass(w) ==
    /\ wpc[w] = "class"
    /\ IF IsFailure(Req(w).err, Req(w).status)
       THEN /\ stats' = [stats EXCEPT !.failure = AddFailure(@)]
            /\ runs' = [runs EXCEPT ![Sub(w)].fails = @ + 1]
            /\ wpc' = [wpc EXCEPT ![w] = "done"]
       ELSE /\ stats' = [stats EXCEPT
                            !.totalRecvBytes = AddTotalRecvBytes(@, LenOf(Sub(w)))]
            /\ wpc' = [wpc EXCEPT ![w] = "elapsed"]
            /\ UNCHANGED runs
    /\ UNCHANGED <<argVars, created, poolVars, wjob, wval, submitVars, histVars,
                   script, benchmarkTimes, group, main, report, elapsedVars>>

\* stats.UpdateReqElapsed(elapsed): its body runs with elapsedMutex held
BElapsed(w) ==
    /\ wpc[w] = "elapsed"
    /\ elapsedMutex = Free
    /\ stats' = [stats EXCEPT !.maxReqElapsed = NewMax(@, Req(w).elapsed),
                              !.minReqElapsed = NewMin(@, Req(w).elapsed)]
    /\ passed' = Append(passed, Req(w).elapsed)
    /\ runs' = [runs EXCEPT ![Sub(w)].extrema = @ + 1]
    /\ wpc' = [wpc EXCEPT ![w] = "tocheck"]
    /\ UNCHANGED <<argVars, created, poolVars, wjob, wval, submitVars, histVars,
                   script, benchmarkTimes, group, main, report, upd>>

\* CheckRunScript(body): without a script it is true at once and
\* stats.AddSuccess() follows; with one, stateLock.Lock() comes first
BCheck(w) ==
    /\ wpc[w] = "tocheck"
    /\ IF enableLua
       THEN /\ stateLock = Free
            /\ script' = [script EXCEPT !.stateLock = w]
            /\ wpc' = [wpc EXCEPT ![w] = "incheck"]
            /\ UNCHANGED <<stats, runs>>
       ELSE /\ stats' = [stats EXCEPT !.success = AddSuccess(@)]
            /\ runs' = [runs EXCEPT ![Sub(w)].check = "true", ![Sub(w)].succs = @ + 1]
            /\ wpc' = [wpc EXCEPT ![w] = "done"]
            /\ script' = script
    /\ UNCHANGED <<argVars, created, poolVars, wjob, wval, submitVars, histVars,
                   benchmarkTimes, group, main, report, elapsedVars>>

\* CheckRunScript(body), the Lua function check() has returned (as in
\* ReqRunScript); stateLock.Unlock(); then stats.AddSuccess() if it said true
\* and stats.AddFailure() if not
BCheckRet(w) ==
    /\ wpc[w] = "incheck"
    /\ stateLock = w
    /\ \E r \in HookResults :
          IF r = "other"
          THEN /\ runs' = [runs EXCEPT ![Sub(w)].check = r]
               /\ wpc' = [wpc EXCEPT ![w] = "panic"]
               /\ UNCHANGED <<script, stats>>
          ELSE /\ script' = [script EXCEPT !.stateLock = Free]
               /\ wpc' = [wpc EXCEPT ![w] = "done"]
               /\ IF RunScriptResult(r)
                  THEN /\ stats' = [stats EXCEPT !.success = AddSuccess(@)]
                       /\ runs' = [runs EXCEPT ![Sub(w)].check = r,
                                               ![Sub(w)].succs = @ + 1]
                  ELSE /\ stats' = [stats EXCEPT !.failure = AddFailure(@)]
                       /\ runs' = [runs EXCEPT ![Sub(w)].check = r,
                                               ![Sub(w)].fails = @ + 1]
    /\ UNCHANGED <<argVars, created, poolVars, wjob, wval, submitVars, histVars,
                   benchmarkTimes, group, main, report, elapsedVars>>

\* the deferred args.WaitGroup.Done(), run when benchmark() returns nil and
\* also while a panic unwinds it
BDone(w) ==
    /\ wpc[w] \in {"done", "panic"}
    /\ group' = WaitGroupDone(group)
    /\ IF wpc[w] = "done"
       THEN /\ wpc' = [wpc EXCEPT ![w] = "infun"]
            /\ runs' = [runs EXCEPT ![Sub(w)].dones = @ + 1]
       ELSE /\ wpc' = [wpc EXCEPT ![w] = "dying"]
            /\ runs' = [runs EXCEPT ![Sub(w)].dones = @ + 1, ![Sub(w)].panics = @ + 1]
    /\ UNCHANGED <<argVars, created, poolVars, wjob, wval, submitVars, histVars,
                   script, benchmarkTimes, main, report, stats, elapsedVars>>

\* the panic leaves benchmark() and then routine(), which recovers nothing:
\* the Go runtime ends the process
BCrash(w) ==
    /\ wpc[w] = "dying"
    /\ ProcessDies
    /\ UNCHANGED <<argVars, created, poolVars, sjob, smine, scnt, histVars,
                   script, benchmarkTimes, group, report, runs, stats, elapsedVars>>

\* benchmark(params ...interface{}) interface{}
benchmark(w) ==
    \/ BEnter(w)
    \/ BHook(w)
    \/ BHookRet(w)
    \/ BDo(w)
    \/ BCount(w)
    \/ BStatus(w)
    \/ BClass(w)
    \/ BElapsed(w)
    \/ BCheck(w)
    \/ BCheckRet(w)
    \/ BDone(w)
    \/ BCrash(w)

routine(w) ==
    \/ WLock(w)
    \/ WCheck(w)
    \/ WCall(w)
    \/ WSend(w)
    \/ WPut(w)

Do(s) ==
    \/ \E f \in Funs \cap {FunOf(TotalCalls + 1)}, a \in {ArgOf(TotalCalls + 1)} :
          DoInit(s, f, a)
    \/ DoLock(s)
    \/ DoPush(s)
    \/ DoReturn(s)

ArgsNext ==
    \/ \E opt \in COpts : ParseArgs(opt)
    \/ StartBenchmark

ArgsSpec == ArgsInit /\ [][ArgsNext]_vars

Next ==
    \/ StartBenchmark
    \/ \E s \in Submitters : Do(s)
    \/ \E w \in Workers : routine(w)

Spec == Init /\ [][Next]_vars

\* startBenchmark: the main goroutine submits the batch, the workers run
\* benchmark() for each submission
BenchNext ==
    \/ StartBenchmark
    \/ GroupAdd
    \/ DriverDo
    \/ GroupWait
    \/ ShowBenchmarkResult
    \/ \E w \in Workers : WLock(w)
    \/ \E w \in Workers : WCheck(w)
    \/ \E w \in Workers : benchmark(w)
    \/ \E w \in Workers : WSend(w)
    \/ \E w \in Workers : WPut(w)

BenchSpec == BenchInit /\ [][BenchNext]_vars

\* goroutines updating the extrema of one Stats value
StatsNext == \E c \in Callers : UpdateReqElapsed(c)

StatsSpec == StatsInit /\ [][StatsNext]_vars

\* goroutines counting status codes in one Stats value
StatusNext == \E c \in Callers : AddStatusCountBy(c)

StatusSpec == StatusInit /\ [][StatusNext]_vars

\* ---------------------------------------------------------------- fairness
\* The Go scheduler runs every runnable goroutine: each step of the pool's own
\* code is eventually taken once it stays possible.
PoolFair ==
    /\ WF_vars(StartBenchmark)
    /\ \A s \in Submitters : WF_vars(DoLock(s) \/ DoPush(s) \/ DoReturn(s))
    /\ \A w \in 1..MaxPoolSize :
          WF_vars(w \in Workers /\ (WLock(w) \/ WCheck(w) \/ WCall(w) \/ WPut(w)))

\* every work function returns
FunsReturn == \A w \in 1..MaxPoolSize : WF_vars(w \in Workers /\ WSend(w))

\* fair scheduling, work functions that return
LiveSpec == Spec /\ PoolFair /\ FunsReturn

\* fair scheduling, work functions that may run for ever
BusySpec == Spec /\ PoolFair

\* ------------------------------------------------------- derived quantities
Submissions == 1..Len(subs)

\* work functions entered and not yet returned
Running(x) == subs[x].calls - subs[x].rets

RECURSIVE RunningUpTo(_)
RunningUpTo(n) == IF n = 0 THEN 0 ELSE Running(n) + RunningUpTo(n - 1)

InFlight == RunningUpTo(Len(subs))

\* how often v occurs in sequence q
Count(q, v) == Cardinality({i \in 1..Len(q) : q[i] = v})

\* the position of v in q, 0 when it does not occur
Pos(q, v) == IF \E i \in 1..Len(q) : q[i] = v
             THEN CHOOSE i \in 1..Len(q) : q[i] = v
             ELSE 0

\* x comes before y in q (y occurring)
Before(q, x, y) == Pos(q, x) # 0 /\ Pos(q, x) < Pos(q, y)

AllDone == /\ TotalCalls = MaxSubmits
           /\ Len(subs) = MaxSubmits
           /\ \A x \in Submissions : subs[x].sends = 1

\* ------------------------------------------------------------------ claims

\* C1: every submission's function is invoked at most once, at most one value
\* is ever sent on the channel made for it, and no submission is taken from
\* the queue twice.
C1_AtMostOnce ==
    \A x \in Submissions :
        /\ subs[x].calls <= 1
        /\ subs[x].sends <= 1
        /\ Len(pipes[x]) <= 1
        /\ Count(deqs, x) <= 1

\* C1 witness: two workers have each taken and finished one submission.
C1_Witness ==
    /\ PoolSize = 2
    /\ Len(deqs) = 2
    /\ \A x \in Submissions : subs[x].calls = 1 /\ subs[x].sends = 1
    /\ Len(subs) = 2
    /\ subs[1].job # subs[2].job

\* C2: under fair scheduling with work functions that return, every
\* submission is eventually taken from the queue, its function invoked and
\* its value placed on its channel.
C2_EventuallyDone ==
    \A x \in 1..MaxSubmits :
        (Len(subs) >= x) ~> (Len(subs) >= x /\ Count(deqs, x) = 1
                             /\ subs[x].calls = 1 /\ Len(pipes[x]) = 1)

\* C2 witness: more submissions than workers, all of them completed.
C2_Witness ==
    /\ created
    /\ Len(subs) > PoolSize
    /\ \A x \in Submissions : subs[x].sends = 1 /\ Len(pipes[x]) = 1

\* C3: the number of work functions entered and not yet returned never
\* exceeds the pool size.
C3_InFlightBounded == created => InFlight <= PoolSize

\* C3 witness: every worker is inside a work function while another
\* submission waits in the queue.
C3_Witness ==
    /\ created
    /\ InFlight = PoolSize
    /\ Len(Queue) >= 1

\* C4: the queue is first-in first-out (the submissions are removed in the
\* order they were appended), and two submissions of one submitter are
\* appended, and so removed, in the order of its calls.
C4_Fifo ==
    /\ Len(deqs) <= Len(enqs)
    /\ \A i \in 1..Len(deqs) : deqs[i] = enqs[i]
    /\ \A x, y \in Submissions :
          (subs[x].by = subs[y].by /\ subs[x].k < subs[y].k) =>
             /\ Pos(enqs, y) # 0 => Before(enqs, x, y)
             /\ Pos(deqs, y) # 0 => Before(deqs, x, y)

\* C4 witness: one submitter made two submissions and two workers took them.
C4_Witness ==
    /\ PoolSize = 2
    /\ Len(deqs) = 2
    /\ subs[deqs[1]].by = subs[deqs[2]].by
    /\ wjob[1] # NoJob
    /\ wjob[2] # NoJob

\* what the submitter of submission x expects on the channel it was given
Expected(x) == Apply(subs[x].fun, subs[x].arg)

\* C5: the channel Do returned for a submission carries only the value of
\* that submission's own function applied to its own argument.
C5_OwnValue ==
    \A x \in Submissions :
        subs[x].ret # NoPipe =>
            \A i \in 1..Len(pipes[subs[x].ret]) : pipes[subs[x].ret][i] = Expected(x)

\* C6: two submissions are given two distinct result channels.
C6_DistinctChannels ==
    \A x, y \in Submissions :
        (x # y /\ subs[x].ret # NoPipe /\ subs[y].ret # NoPipe) =>
            subs[x].ret # subs[y].ret

\* C7: with pool size 1 at most one work function runs at a time, and the
\* function of a submission appended earlier (for one submitter: called
\* earlier) has returned before the function of a later one is entered.
C7_Serial ==
    (created /\ PoolSize = 1) =>
        /\ InFlight <= 1
        /\ \A x, y \in Submissions :
              (subs[y].calls > 0 /\
                 (Before(enqs, x, y) \/
                    (subs[x].by = subs[y].by /\ subs[x].k < subs[y].k))) =>
                 subs[x].rets > 0

\* C7 witness: the single worker is inside the function of the second
\* submission, the first having returned.
C7_Witness ==
    /\ created
    /\ PoolSize = 1
    /\ Len(enqs) = 2
    /\ subs[enqs[1]].rets = 1
    /\ Running(enqs[2]) = 1

\* C8: a call of Do appends its job and returns whatever the workers do
\* inside the work functions: under fair scheduling of the pool's own code,
\* with work functions that need never return, every call that has begun
\* gets its job into the queue and returns.
C8_SubmitReturns ==
    \A x \in 1..MaxSubmits :
        (Len(subs) >= x) ~> (Len(subs) >= x /\ Pos(enqs, x) # 0 /\ subs[x].ret # NoPipe)

\* C8 witness: every worker is inside a work function, the queue holds a job,
\* and every call of Do has returned.
C8_Witness ==
    /\ created
    /\ \A w \in Workers : wpc[w] = "infun"
    /\ Len(Queue) >= 1
    /\ TotalCalls = MaxSubmits
    /\ \A x \in Submissions : subs[x].ret # NoPipe
    /\ \A s \in Submitters : spc[s] = "idle"

\* the positions of routine(): none is outside its endless loop
WorkerPositions == {"lock", "check", "waiting", "wake", "call", "infun", "put"}

\* C9: the pool has exactly PoolSize workers from its construction on: none
\* before, none added later, none leaves routine().
C9_WorkersFixed ==
    /\ ~created => Workers = {}
    /\ created =>
          /\ PoolSize = connections
          /\ Workers = 1..PoolSize
          /\ Cardinality(Workers) = PoolSize
          /\ \A w \in Workers : wpc[w] \in WorkerPositions

\* C9 witness: a pool of two workers after all submissions have completed.
C9_Witness ==
    /\ created
    /\ PoolSize = 2
    /\ AllDone
    /\ \A w \in Workers : wpc[w] = "waiting"

\* the last -c option given, if any
LastC == cGiven[Len(cGiven)]
NonPositiveGiven == Len(cGiven) > 0 /\ LastC.ok /\ LastC.value <= 0

\* the value of the last -c option that parsed to a positive number
RECURSIVE LastPositive(_, _)
LastPositive(opts, default) ==
    IF opts = <<>> THEN default
    ELSE LET o == opts[Len(opts)] IN
         IF o.ok /\ o.value > 0 THEN o.value
         ELSE LastPositive(SubSeq(opts, 1, Len(opts) - 1), default)

\* C10 as claimed: when the pool size given is not positive, no pool is
\* created.
C10_NonPositiveRejected == NonPositiveGiven => ~created

\* C10 as amended: a -c value that is not positive (or does not parse) is
\* ignored and the size stays what it was; the pool is created with that
\* size, which is positive, and with that many workers.
C10_NonPositiveIgnored ==
    /\ connections = LastPositive(cGiven, DefaultConnections)
    /\ connections >= 1
    /\ created => (PoolSize = connections /\ Workers = 1..connections)

\* C10 witness: the pool exists although the last size given was not positive.
C10_Witness == NonPositiveGiven /\ created /\ PoolSize >= 1

\* ------------------------------------------------- claims on the benchmark
\* the submissions of the batch made so far
Batch == 1..added

\* some invocation of benchmark() has panicked
SomePanic == \E x \in Batch : runs[x].panics > 0

\* C11: a panic inside a work function does not leave the worker: the process
\* goes on and the pool keeps all its workers.
C11_PanicContained == SomePanic => (~crashed /\ Workers = 1..PoolSize)

\* the barrier has reached zero with the whole batch submitted and every
\* invocation of benchmark() returned (none left it by a panic)
Drained == added = benchmarkTimes /\ group = 0 /\ ~SomePanic

BarrierZero == added = benchmarkTimes /\ group = 0

\* the sum of the counts of a status map
RECURSIVE SumMap(_)
SumMap(m) == IF DOMAIN m = {} THEN 0
             ELSE LET c == CHOOSE k \in DOMAIN m : TRUE IN
                  m[c] + SumMap([k \in DOMAIN m \ {c} |-> m[k]])

\* the requests counted in totalReqs that ended with status 0
ZeroStatus == Cardinality({x \in Batch : runs[x].counted = 1 /\ runs[x].status = 0})

\* C13: once the barrier has reached zero, the counts of the status histogram
\* add up to totalReqs less the counted requests that ended with status 0.
C13_HistogramSum == BarrierZero => SumMap(statusStats) = totalReqs - ZeroStatus

\* C13 witness: a batch of two, one request without a response (status 0) and
\* one with a status code, both counted.
C13_Witness ==
    /\ BarrierZero
    /\ totalReqs = 2
    /\ ZeroStatus = 1
    /\ SumMap(statusStats) = 1

\* ------------------------------------------------------ claims on the Stats
\* no call of UpdateReqElapsed is under way
Quiet == \A c \in Callers : epc[c] = "out"

\* the largest and the smallest element of a non-empty sequence
SeqMax(q) == CHOOSE v \in {q[i] : i \in 1..Len(q)} : \A i \in 1..Len(q) : q[i] <= v
SeqMin(q) == CHOOSE v \in {q[i] : i \in 1..Len(q)} : \A i \in 1..Len(q) : v <= q[i]

AllPositive(q) == \A i \in 1..Len(q) : q[i] > 0

\* C14: when every call of UpdateReqElapsed passed a value above zero, then,
\* the calls having returned, maxReqElapsed is the largest and minReqElapsed
\* the smallest of the values passed, however the calls interleaved.
C14_Extrema ==
    (Quiet /\ passed # <<>> /\ AllPositive(passed)) =>
        /\ maxReqElapsed = SeqMax(passed)
        /\ minReqElapsed = SeqMin(passed)

\* C14 witness: three calls have returned, the values passed neither rising
\* nor falling.
C14_Witness ==
    /\ Quiet
    /\ Len(passed) = 3
    /\ AllPositive(passed)
    /\ passed[2] < passed[1]
    /\ passed[2] < passed[3]
    /\ minReqElapsed = passed[2]

\* C15: whatever the values passed, the calls having returned, minReqElapsed
\* is zero or the smallest value passed, and maxReqElapsed is the largest.
C15_SentinelOrSmallest ==
    (Quiet /\ passed # <<>>) =>
        /\ minReqElapsed = 0 \/ minReqElapsed = SeqMin(passed)
        /\ maxReqElapsed = SeqMax(passed)

\* C16: at every moment of a run success + failure is at most totalReqs: an
\* invocation adds to totalReqs before it records its success or failure.
C16_ClassifiedCounted == success + failure <= totalReqs

\* C16 witness: two workers are inside benchmark(), both requests counted,
\* one of them already recorded as a failure and the other not yet classified.
C16_Witness ==
    /\ PoolSize = 2
    /\ \A w \in Workers : wpc[w] \in BenchPositions
    /\ totalReqs = 2
    /\ failure = 1
    /\ success = 0

\* worker w is inside benchmark()
Executing(w) == wpc[w] \in BenchPositions \ {"dying"}

\* C17: the main goroutine reads the Stats and prints the report only once
\* the barrier is at zero: the whole batch submitted, nothing queued, every
\* invocation of benchmark() over.
C17_ReportAfterDrain ==
    (dpc = "show" \/ report # <<>>) =>
        /\ group = 0
        /\ added = benchmarkTimes
        /\ Len(subs) = benchmarkTimes
        /\ Queue = <<>>
        /\ \A x \in 1..benchmarkTimes : subs[x].calls = 1 /\ runs[x].dones = 1
        /\ \A w \in Workers : wpc[w] # "call" /\ ~Executing(w)
        /\ report # <<>> => report[1].group = 0 /\ report[1].stats = stats

\* C17 witness: the report of a batch of two run by two workers is printed.
C17_Witness ==
    /\ dpc = "end"
    /\ report # <<>>
    /\ benchmarkTimes = 2
    /\ PoolSize = 2
    /\ report[1].stats.totalReqs = 2

\* the invocations of benchmark() that have run their WaitGroup.Done()
DoneCount == Cardinality({x \in Batch : runs[x].dones = 1})

\* C18: the barrier counter is raised once for each submission, before the
\* submission is made, and lowered once by each invocation of benchmark(),
\* whichever way it is left; it is never negative, and it is zero exactly
\* when every submission accounted for has finished.
C18_BarrierCounts ==
    /\ group >= 0
    /\ Len(subs) = scnt[Driver]
    /\ scnt[Driver] <= added
    /\ added <= scnt[Driver] + 1
    /\ Len(runs) = added
    /\ \A x \in Batch :
          /\ runs[x].dones <= 1
          /\ runs[x].dones = 1 => (x <= Len(subs) /\ subs[x].calls = 1)
          /\ (x <= Len(subs) /\ subs[x].rets = 1) => runs[x].dones = 1
    /\ group = added - DoneCount
    /\ group = 0 <=> \A x \in Batch : runs[x].dones = 1

\* C18 witness: a batch of two is over, one invocation left at the hook's
\* rejection and one after a counted success; the counter is back at zero.
C18_Witness ==
    /\ added = 2
    /\ group = 0
    /\ \E x \in Batch : runs[x].hook = "error" /\ runs[x].dones = 1 /\ subs[x].rets = 1
    /\ \E x \in Batch : runs[x].succs = 1 /\ runs[x].dones = 1 /\ subs[x].rets = 1

\* the hook request() raised an error or returned false for submission x
Rejected(x) == runs[x].hook \in {"false", "error"}

\* C19: the request of a submission the hook request() rejected (an error or
\* false) is never issued: req.Do() is not called for it.
C19_RejectedNotIssued == \A x \in Batch : Rejected(x) => runs[x].issued = 0

\* C19 witness: of a batch of two, one submission was rejected by a false and
\* is over, the request of the other was issued.
C19_Witness ==
    /\ \E x \in Batch : runs[x].hook = "false" /\ runs[x].dones = 1 /\ runs[x].issued = 0
    /\ \E x \in Batch : runs[x].hook = "true" /\ runs[x].issued = 1

\* C20: a submission the hook request() rejected is counted as a failure:
\* once its invocation is over, AddFailure has been called for it.
C20_RejectedCounted ==
    \A x \in Batch : (Rejected(x) /\ runs[x].dones = 1) => runs[x].fails = 1

\* ------------------------------------------- claims on hooks and the report
\* C21: when check(body) returns false for a request that got status 200, the
\* request is a failure: the step in which the check comes back adds one to
\* failure and nothing to success (the counters are the sums of what was added
\* for each request).
C21_CheckFalseFails ==
    /\ \A x \in Batch :
          runs[x].check = "false" =>
             /\ runs[x].status = StatusOK
             /\ runs[x].fails = 1
             /\ runs[x].succs = 0
    /\ failure = SumCnt([x \in Batch |-> runs[x].fails], Batch)
    /\ success = SumCnt([x \in Batch |-> runs[x].succs], Batch)

\* C21 witness: a request answered with status 200 whose check said false has
\* returned, and it is the only failure counted.
C21_Witness ==
    \E x \in Batch :
       /\ runs[x].check = "false"
       /\ runs[x].status = StatusOK
       /\ runs[x].dones = 1
       /\ failure = 1
       /\ success = 0

\* C22: a request that fails before a status is obtained (req.Status stays 0),
\* whatever its elapsed time, is recorded as one failure and no success, and
\* its invocation completes normally: benchmark() returns, it does not panic.
C22_TransportErrorCompletes ==
    \A x \in Batch :
       (runs[x].issued = 1 /\ runs[x].status = 0 /\ runs[x].dones = 1) =>
          /\ runs[x].fails = 1
          /\ runs[x].succs = 0
          /\ runs[x].panics = 0
          /\ ~crashed

\* the invocation of benchmark() for submission x issued its request and has
\* returned
Returned(x) == runs[x].issued = 1 /\ runs[x].dones = 1 /\ runs[x].panics = 0

InScript(w) == wpc[w] \in {"inhook", "incheck"}

\* worker w is about to call a hook of a loaded script
AtScript(w) == enableLua /\ wpc[w] \in {"hook", "tocheck"}

\* C24: at most one script call, request hook or check hook, executes at any
\* time, and the worker executing it holds stateLock.
C24_HooksExcluded ==
    /\ \A v, w \in Workers : (InScript(v) /\ InScript(w)) => v = w
    /\ \A w \in Workers : InScript(w) => stateLock = w

\* C24 witness: with two workers, one is inside the check hook while the
\* other has come to its request hook.
C24_Witness ==
    /\ PoolSize = 2
    /\ \E v, w \in Workers : v # w /\ wpc[v] = "incheck" /\ AtScript(w) /\ wpc[w] = "hook"

\* C25: a report formatted with totalReqs = 0 is produced without dividing
\* by zero: the formatter prints all of it and the process goes on.
C25_ZeroReportPrinted ==
    (report # <<>> /\ report[1].stats.totalReqs = 0) =>
       /\ report[1].complete
       /\ ~crashed

\* C26: with a script loaded, for every issued request that received a
\* response whose body was read, whatever its status code, the check hook has
\* been called once the invocation has returned.
C26_CheckPerResponse ==
    \A x \in Batch :
       (enableLua /\ Returned(x) /\ runs[x].status # 0 /\ ~runs[x].err) =>
          runs[x].check \in HookResults

\* the bytes benchmark() is to count for submission x: the length of the body
\* of a response with status 200 read without error, nothing otherwise
BytesOf(x) ==
    IF runs[x].issued = 1 /\ ~runs[x].err /\ runs[x].status = StatusOK
    THEN LenOf(x) ELSE 0

CountOf(m, code) == IF code \in DOMAIN m THEN m[code] ELSE 0

\* the calls of AddStatusCount with this code that have not yet written
Pending(code) ==
    Cardinality({c \in Callers :
                    epc[c] \in {"slock", "exists", "load", "store"} /\ upd[c].status = code})

\* C28: whatever the interleaving of the callers, the count stored for each
\* status code is the number of calls made with it that have written their
\* increment; when every call has returned it is the number of calls made.
C28_StatusCounts ==
    \A code \in Codes : CountOf(statusStats, code) = Count(passed, code) - Pending(code)

\* C28 witness: three calls by two goroutines have returned, two of them with
\* code 404 and one with code 200.
C28_Witness ==
    /\ \A c \in Callers : epc[c] = "out"
    /\ Len(passed) = 3
    /\ CountOf(statusStats, 404) = 2
    /\ CountOf(statusStats, StatusOK) = 1

\* ------------------------------------------------- claims on the wait loop
\* C29: an item leaves the queue only in a step of a worker that holds the
\* queue mutex, is past its latest wakeup at the test of the queue, and finds
\* it non-empty; what it takes is the head.
C29_DequeueNonEmpty ==
    [][(Len(deqs') # Len(deqs) \/ Len(Queue') < Len(Queue)) =>
          /\ Queue # <<>>
          /\ Len(deqs') = Len(deqs) + 1
          /\ \E w \in Workers :
                /\ mutex = w
                /\ wpc[w] = "check"
                /\ wpc'[w] = "call"
                /\ wjob'[w] = Front(Queue)
                /\ Queue' = Tail(Queue)]_vars

\* C29 witness: a worker was woken for an item that another worker has taken
\* in the meantime: it comes out of the wait to an empty queue.
C29_Witness ==
    \E w \in Workers :
       /\ wpc[w] = "wake"
       /\ Queue = <<>>
       /\ Len(enqs) >= 1
       /\ Len(deqs) = Len(enqs)

\* worker w is parked in Cond.Wait and no Signal has picked it
Parked(w) == w \in waiters /\ wpc[w] = "waiting"

\* C30: no wakeup is lost: the queue is never non-empty while every worker is
\* parked on the condition with no wakeup pending.
C30_NoLostWakeup == ~(created /\ Queue # <<>> /\ \A w \in Workers : Parked(w))

\* C30 witness: an item is in the queue, one worker is still parked and the
\* other has been woken for the item and has not yet taken the lock.
C30_Witness ==
    /\ PoolSize = 2
    /\ Queue # <<>>
    /\ \E v, w \in Workers : Parked(v) /\ wpc[w] = "wake"

\* ------------------------------------------- claims on work items and ids
\* C31: the send of a work function's value never blocks, although nobody
\* reads the channels: when a worker comes to the send, the channel of its
\* job has room, every channel having capacity one and at most one send.
C31_SendNeverBlocks ==
    /\ \A w \in Workers :
          wpc[w] = "infun" => Len(pipes[jobs[wjob[w]].pipe]) < PipeCap
    /\ \A x \in Submissions : subs[x].sends <= PipeCap

\* C31 witness: a worker comes to the send for a recycled job whose earlier
\* channel still holds its unread value.
C31_Witness ==
    \E w \in Workers :
       /\ wpc[w] = "infun"
       /\ \E x \in Submissions :
             /\ x # jobs[wjob[w]].pipe
             /\ subs[x].job = wjob[w]
             /\ Len(pipes[x]) = PipeCap

\* the work items allocated so far
Items == 1..Len(jobs)

\* the number of owners of work item j: the free list, a submitter between
\* JobPool.Get and the end of PushBack, the queue, a worker between Remove
\* and JobPool.Put
Owners(j) ==
    (IF j \in JobPool THEN 1 ELSE 0)
    + Cardinality({s \in Submitters : sjob[s] = j /\ spc[s] \in {"lock", "push"}})
    + Count(Queue, j)
    + Cardinality({w \in Workers : wjob[w] = j})

\* every work item has exactly one owner
OneOwner == \A j \in Items : Owners(j) = 1

\* an item is in the free list only after the value of its submission was sent
FreeAfterSend == \A j \in JobPool : subs[jobs[j].pipe].sends = 1

\* a submitter that reads job.pipe reads an item that is not in the free list
\* and has not been drawn again by another submission
NoStaleRead ==
    \A s \in Submitters :
       spc[s] = "ret" => (sjob[s] \notin JobPool /\ jobs[sjob[s]].pipe = smine[s])

\* C32: every work item has exactly one owner at any time, it enters the free
\* list only after its result was placed in its channel, and nobody reads an
\* item that is in the free list or was drawn again by another submission.
C32_SingleOwner == OneOwner /\ FreeAfterSend /\ NoStaleRead

\* C33: a work item in the free list refers to no function, argument, id or
\* result channel of a finished submission: every transient field is cleared.
C33_RecycledCleared ==
    \A j \in JobPool :
       /\ jobs[j].fun = ZeroJob.fun
       /\ jobs[j].args = ZeroJob.args
       /\ jobs[j].id = ZeroJob.id
       /\ jobs[j].pipe = NoPipe

\* C34: the ids of one pool are unique and strictly increasing: each
\* submission gets the highest id given so far plus one, and no two work
\* items carry the same id.
C34_IdsIncreasing ==
    /\ LastID = Len(subs)
    /\ \A x \in Submissions : subs[x].id = x
    /\ \A x, y \in Submissions : x < y => subs[x].id < subs[y].id
    /\ \A i, j \in Items : (i # j /\ jobs[i].id # 0) => jobs[i].id # jobs[j].id

\* C34 witness: two submitters have each made a submission, the second with
\* the recycled work item of the first.
C34_Witness ==
    /\ Len(subs) = 2
    /\ subs[1].by # subs[2].by
    /\ subs[1].job = subs[2].job
    /\ subs[2].id = 2
    /\ jobs[subs[2].job].id = 2

\* ------------------------------------------ claims on the aggregator's use
\* C35: every update of the aggregator is made by an invocation that has not
\* yet decremented the barrier, so the barrier is above zero at every write,
\* and from the moment the driver has come past group.Wait() the aggregator
\* no longer changes.
C35_WritesBeforeDone ==
    [][/\ stats' # stats =>
             /\ group > 0
             /\ \E w \in Workers : Executing(w) /\ Req(w).dones = 0 /\ w \in DOMAIN wpc'
                                   /\ wpc'[w] # wpc[w]
       /\ dpc \in {"show", "end"} => stats' = stats
       /\ \A x \in Batch :
             runs[x].dones = 1 =>
                /\ runs'[x].counted = runs[x].counted
                /\ runs'[x].fails = runs[x].fails
                /\ runs'[x].succs = runs[x].succs
                /\ runs'[x].extrema = runs[x].extrema]_vars

\* C35 witness: the driver is past the barrier and reads an aggregator to
\* which two invocations have written all their updates.
C35_Witness ==
    /\ dpc = "show"
    /\ benchmarkTimes = 2
    /\ \A x \in Batch : runs[x].dones = 1 /\ runs[x].counted = 1
    /\ totalReqs = 2
    /\ success + failure = 2

\* the goroutines between Cond.L.Lock() and the release of the lock: workers
\* at the test of the queue, submitters at PushBack
InLock == {w \in Workers : wpc[w] = "check"} \cup {-s : s \in {t \in Submitters : spc[t] = "push"}}

\* C36: the queue changes only in a step of the goroutine that holds the
\* queue mutex (a submitter appending, a worker removing the head), at most
\* one goroutine is inside the lock, and no worker holds the mutex while it
\* executes a work function.
C36_QueueUnderMutex ==
    [][/\ Queue' # Queue =>
             /\ mutex # Free
             /\ InLock = {mutex}
             /\ \/ mutex < 0 /\ spc'[-mutex] = "ret" /\ Queue' = Append(Queue, sjob[-mutex])
                \/ mutex > 0 /\ wpc'[mutex] = "call" /\ Queue' = Tail(Queue)
       /\ Cardinality(InLock) <= 1
       /\ InLock \subseteq {mutex}
       /\ \A w \in Workers : wpc[w] \in {"call", "infun"} \cup BenchPositions => mutex # w]_vars

\* C36 witness: a submitter appends under the mutex while one worker is
\* inside a work function and the other waits for the mutex.
C36_Witness ==
    /\ PoolSize = 2
    /\ \E s \in Submitters : spc[s] = "push" /\ mutex = -s
    /\ \E v, w \in Workers : wpc[v] = "infun" /\ wpc[w] = "lock"

\* C37: every call of UpdateReqElapsed made by benchmark() passes a value
\* above zero: no request whose elapsed time is 0 comes to the update.
C37_UpdatePositive ==
    /\ \A i \in 1..Len(passed) : passed[i] > 0
    /\ \A x \in Batch : runs[x].extrema > 0 => runs[x].elapsed > 0
    /\ Len(passed) > 0 => minReqElapsed > 0

\* C37 witness: of two requests answered with status 200, one took 0 ms and
\* never came to the update, the other was passed with its elapsed time.
C37_Witness ==
    /\ Len(passed) = 1
    /\ \E x \in Batch : runs[x].extrema = 1 /\ passed[1] = runs[x].elapsed
    /\ \E x \in Batch :
          /\ runs[x].issued = 1
          /\ runs[x].status = StatusOK
          /\ ~runs[x].err
          /\ runs[x].elapsed = 0
          /\ runs[x].panics = 1

\* the ids of the work items in the queue, from head to tail
QueueIds == [i \in 1..Len(Queue) |-> jobs[Queue[i]].id]

\* C38: the ids of the items in the queue are strictly increasing from head
\* to tail, so items are dequeued in the order of their ids.
C38_QueueIdOrder ==
    /\ \A i, j \in 1..Len(Queue) : i < j => QueueIds[i] < QueueIds[j]
    /\ \A i, j \in 1..Len(deqs) : i < j => subs[deqs[i]].id < subs[deqs[j]].id

\* the elapsed time benchmark() has added to totalTimes for submission x
TimeOf(x) == IF runs[x].counted = 1 THEN runs[x].elapsed ELSE 0

\* C39: only requests that returned no error with status 200 come to the
\* update of the extrema, which are the largest and the smallest of their
\* elapsed times and of nothing else; the elapsed time of every request the
\* executor was called for is in totalTimes once the invocation is over.
C39_ExtremaFrame ==
    /\ \A x \in Batch :
          /\ runs[x].extrema <= 1
          /\ runs[x].extrema = 1 =>
                (runs[x].issued = 1 /\ ~runs[x].err /\ runs[x].status = StatusOK)
          /\ (runs[x].issued = 1 /\ runs[x].dones = 1) =>
                (runs[x].counted = 1 \/ runs[x].elapsed = 0)
    /\ Len(passed) = SumCnt([x \in Batch |-> runs[x].extrema], Batch)
    /\ maxReqElapsed = IF passed = <<>> THEN 0 ELSE SeqMax(passed)
    /\ minReqElapsed = IF passed = <<>> THEN 0 ELSE SeqMin(passed)
    /\ totalTimes = SumCnt([x \in Batch |-> TimeOf(x)], Batch)

\* C39 witness: a request answered with 404 after 2 ms and one answered with
\* 200 after 1 ms have returned: the extrema are those of the second alone,
\* the total time is that of both.
C39_Witness ==
    /\ Drained
    /\ \E x, y \in Batch :
          /\ runs[x].status = 404 /\ ~runs[x].err /\ runs[x].elapsed = 2
          /\ runs[x].extrema = 0
          /\ runs[y].status = StatusOK /\ runs[y].extrema = 1 /\ runs[y].elapsed = 1
    /\ maxReqElapsed = 1
    /\ minReqElapsed = 1
    /\ totalTimes = 3

====
